---- MODULE Spec2Model ----
(***************************************************************************)
(* Model of src/ib/ib_client.py: the callback-based IBClient.               *)
(*                                                                         *)
(* Threads: caller threads running req_contract_details /                  *)
(* req_historical_data, the single message-processing thread started by    *)
(* connect_to_ib (Thread(target=self.run)), which runs every EWrapper       *)
(* callback, and one controller thread running connect_to_ib and           *)
(* disconnect_from_ib.  The code takes no lock anywhere, so one step of    *)
(* the model is one access to shared state (a dict lookup, a dict store,   *)
(* an attribute load or store); threads interleave between steps.          *)
(*                                                                         *)
(* Event and list objects have identity: request_events maps an            *)
(* identifier to an Event object, contract_details / historical_data map   *)
(* an identifier to a list object, and evFlag / lists are the heaps.       *)
(***************************************************************************)
EXTENDS Integers, Sequences, FiniteSets, TLC

\* ---- bounds of the model ----
\* total number of data / end / error messages the broker sends
MaxEvents == 3
\* number of disconnect_from_ib calls in a behaviour
MaxDisconnects == 2
\* largest number of bars the history request answers
MaxBars == 2

\* the largest timeout argument of a call on the ib_insync client, and how long
\* the clock runs while such a call waits, in the same unit
MaxTimeout == 2
MaxTicks == 3

\* the caller threads; each makes one req_* call.  The threads are interchangeable,
\* so t1 is the one that calls first, and the two methods differ only in the buffer
\* they use, so the first call is req_contract_details
Callers == {"t1", "t2"}

\* every thread that can call into the client: the two callers and a third thread
\* that only takes part where get_next_req_id is looked at by itself
Threads == Callers \cup {"t3"}

\* the two request kinds: contract details, historical data
Kinds == {"cd", "hd"}

\* reqId of an error reported against the whole session (ibapi NO_VALID_ID)
NoValidId == -1

\* __init__ line 24: random.randint(1, 10000), both ends included
DefaultIdLo == 1
DefaultIdHi == 10000
\* test_connection line 141: random.randint(10000, 99999), both ends included
ProbeIdLo == 10000
ProbeIdHi == 99999

\* the client identifiers the model tries: the ends of the two ranges
ClientIds == {DefaultIdLo, DefaultIdHi, ProbeIdHi}
\* what random.randint can return for a defaulted client_id, and for the probe
DefaultIds == {i \in ClientIds : DefaultIdLo <= i /\ i <= DefaultIdHi}
ProbeIds == {i \in ClientIds : ProbeIdLo <= i /\ i <= ProbeIdHi}

VARIABLES
  ready,             \* self.ready
  connected,         \* self.connected
  transport,         \* the EClient socket is open
  pending,           \* handshake messages of the broker not yet handled
  req_id,            \* self.req_id
  request_events,    \* self.request_events: identifier -> Event object
  contract_details,  \* self.contract_details: identifier -> list object
  historical_data,   \* self.historical_data: identifier -> list object
  evFlag,            \* heap of Event objects, named by the thread that made them: the flag
  lists,             \* heap of list objects: the contents of each
  pc,                \* position of each caller thread
  kind,              \* which req_* method the caller runs
  loc_id,            \* the caller's local req_id
  tmp,               \* the value loaded by `self.req_id += 1`
  waitev,            \* the Event object the caller waits on
  details,           \* the caller's local details / data (a list object, 0 = fresh [])
  outcome,           \* how the call ended
  rpc,               \* position of the message-processing thread
  cur,               \* the message it is handling
  rref,              \* the list object it has looked up
  cpc,               \* position of the controller thread
  cres,              \* what connect_to_ib returned
  sent,              \* request messages written to the broker: <<kind, id>>
  dataLog,           \* data messages the reader has started to handle, in order
  termLog,           \* per Event object: the terminal message that first set it
  nevents,           \* data / end / error messages received
  ndisc,             \* disconnect_from_ib calls started
  client_id,         \* self.client_id of the primary session
  test_client_id,    \* test_client_id of test_connection (0 = not drawn)
  tpc,               \* position of test_connection; from "connect" on, the session
                     \* of the model is its probe
  full_code,         \* the code handed to parse_product_from_code / the routes
  parsed,            \* what parse_product_from_code returned
  resp,              \* the HTTP response of the route that was called
  nconn,             \* self.connect calls made by connect_to_ib
  ndisp,             \* per thread: request messages its req_* call has dispatched
  probe,             \* the fields of the IBClient that test_connection builds, when
                     \* the session of the model is the primary one
  acall              \* the call in progress on the ib_insync wrapper client

vars == <<ready, connected, transport, pending, req_id, request_events, contract_details,
          historical_data, evFlag, lists, pc, kind, loc_id, tmp, waitev, details,
          outcome, rpc, cur, rref, cpc, cres, sent, dataLog, termLog, nevents,
          ndisc, client_id, test_client_id, tpc, full_code, parsed, resp,
          nconn, ndisp, probe, acall>>

sessionVars == <<ready, connected, transport, pending>>
mapVars == <<request_events, contract_details, historical_data>>
heapVars == <<evFlag, lists>>
callerVars == <<pc, kind, loc_id, tmp, waitev, details, outcome>>
readerVars == <<rpc, cur, rref>>
ctlVars == <<cpc, cres, ndisc>>
ghostVars == <<sent, dataLog, termLog, nevents>>
probeVars == <<client_id, test_client_id, tpc>>
apiVars == <<full_code, parsed, resp>>
countVars == <<nconn, ndisp>>
objVars == <<probe, acall>>

\* ---- dict helpers ----
\* d[k] = v
Put(d, k, v) == [i \in DOMAIN d \cup {k} |-> IF i = k THEN v ELSE d[i]]
\* del d[k]
Del(d, k) == [i \in DOMAIN d \ {k} |-> d[i]]
EmptyDict == [i \in {} |-> 0]

NoMsg == [type |-> "none", id |-> 0, n |-> 0]

\* Python's None as the second component of a parse result; no slice that
\* parse_product_from_code returns there is empty
None == <<>>

\* test_connection has built no IBClient
NoProbe == [pc |-> "off", built |-> FALSE, ready |-> FALSE, connected |-> FALSE,
            transport |-> FALSE]

\* no call on the ib_insync wrapper client yet
NoCall == [pc |-> "idle", kind |-> "none", timeout |-> 0, elapsed |-> 0,
           outcome |-> "none", requests |-> <<>>, resolved |-> <<>>]

\* no route has answered yet
NoResp == [route |-> "none", status |-> 0, symbol |-> <<>>, count |-> 0,
           search |-> "none", history |-> "none", search_data |-> <<>>,
           conid |-> <<>>]

\* self.contract_details or self.historical_data, by request kind
Buffer(k) == IF k = "cd" THEN contract_details ELSE historical_data

\* the contents of the list a caller holds
Result(c) == IF details[c] = 0 THEN <<>> ELSE lists[details[c]]

\* ---- IBClient.__init__ ----
\* line 24: the client_id handed in, or else random.randint(1, 10000)
Init ==
  /\ ready = FALSE
  /\ connected = FALSE
  /\ transport = FALSE
  /\ pending = {}
  /\ req_id = 1
  /\ request_events = EmptyDict
  /\ contract_details = EmptyDict
  /\ historical_data = EmptyDict
  /\ evFlag = EmptyDict
  /\ lists = <<>>
  /\ pc = [c \in Threads |-> "idle"]
  /\ kind = [c \in Threads |-> "cd"]
  /\ loc_id = [c \in Threads |-> 0]
  /\ tmp = [c \in Threads |-> 0]
  /\ waitev = [c \in Threads |-> "none"]
  /\ details = [c \in Threads |-> 0]
  /\ outcome = [c \in Threads |-> "none"]
  /\ rpc = "off"
  /\ cur = NoMsg
  /\ rref = 0
  /\ cpc = "idle"
  /\ cres = "none"
  /\ sent = {}
  /\ dataLog = <<>>
  /\ termLog = EmptyDict
  /\ nevents = 0
  /\ ndisc = 0
  /\ client_id \in ClientIds \cup DefaultIds
  /\ test_client_id = 0
  /\ tpc = "off"
  /\ full_code = <<>>
  /\ parsed = <<>>
  /\ resp = NoResp
  /\ nconn = 0
  /\ ndisp = [c \in Threads |-> 0]
  /\ probe = NoProbe
  /\ acall = NoCall

\* assignment to self.contract_details / self.historical_data, by request kind
SetBuffer(k, d) ==
  IF k = "cd"
    THEN contract_details' = d /\ UNCHANGED historical_data
    ELSE historical_data' = d /\ UNCHANGED contract_details

\* an exception leaves the call: KeyError, or whatever the dispatch raised
Fail(c, what) ==
  /\ pc' = [pc EXCEPT ![c] = "done"]
  /\ outcome' = [outcome EXCEPT ![c] = what]

\* ---- req_contract_details (k = "cd") / req_historical_data (k = "hd") ----

\* Call with the identifier allocated before the readiness check
CallAllocatesFirst(c, k) ==
  /\ pc[c] = "idle"
  /\ IF c = "t1" THEN k = "cd" ELSE pc["t1"] # "idle"
  /\ kind' = [kind EXCEPT ![c] = k]
  /\ loc_id' = [loc_id EXCEPT ![c] = req_id]
  /\ req_id' = req_id + 1
  /\ IF ready
       THEN /\ pc' = [pc EXCEPT ![c] = "register"]
            /\ UNCHANGED outcome
       ELSE Fail(c, "not_ready")
  /\ UNCHANGED <<sessionVars, mapVars, heapVars, tmp, waitev, details,
                 readerVars, ctlVars, ghostVars, probeVars, apiVars,
                 countVars, objVars>>

\* lines 154-155 / 183-184: if not self.ready: raise Exception("Not connected to IB")
Call(c, k) ==
  /\ pc[c] = "idle"
  /\ IF c = "t1" THEN k = "cd" ELSE pc["t1"] # "idle"
  /\ kind' = [kind EXCEPT ![c] = k]
  /\ IF ready
       THEN /\ pc' = [pc EXCEPT ![c] = "get_id"]
            /\ UNCHANGED outcome
       ELSE Fail(c, "not_ready")
  /\ UNCHANGED <<sessionVars, req_id, mapVars, heapVars, loc_id, tmp, waitev, details,
                 readerVars, ctlVars, ghostVars,
                 probeVars, apiVars,
                 countVars, objVars>>

\* get_next_req_id, line 134: req_id = self.req_id
GetNextReqIdRead(c) ==
  /\ pc[c] = "get_id"
  /\ loc_id' = [loc_id EXCEPT ![c] = req_id]
  /\ pc' = [pc EXCEPT ![c] = "incr_load"]
  /\ UNCHANGED <<sessionVars, req_id, mapVars, heapVars, kind, tmp, waitev, details,
                 outcome, readerVars, ctlVars, ghostVars,
                 probeVars, apiVars,
                 countVars, objVars>>

\* get_next_req_id, line 135: self.req_id += 1, the load of self.req_id
GetNextReqIdLoad(c) ==
  /\ pc[c] = "incr_load"
  /\ tmp' = [tmp EXCEPT ![c] = req_id]
  /\ pc' = [pc EXCEPT ![c] = "incr_store"]
  /\ UNCHANGED <<sessionVars, req_id, mapVars, heapVars, kind, loc_id, waitev, details,
                 outcome, readerVars, ctlVars, ghostVars,
                 probeVars, apiVars,
                 countVars, objVars>>

\* get_next_req_id, line 135: self.req_id += 1, the store of the sum
GetNextReqIdStore(c) ==
  /\ pc[c] = "incr_store"
  /\ req_id' = tmp[c] + 1
  /\ tmp' = [tmp EXCEPT ![c] = 0]
  /\ pc' = [pc EXCEPT ![c] = "register"]
  /\ UNCHANGED <<sessionVars, mapVars, heapVars, kind, loc_id, waitev, details,
                 outcome, readerVars, ctlVars, ghostVars,
                 probeVars, apiVars,
                 countVars, objVars>>

\* line 158 / 187: self.request_events[req_id] = Event()
Register(c) ==
  /\ pc[c] = "register"
  /\ evFlag' = Put(evFlag, c, FALSE)
  /\ termLog' = Put(termLog, c, NoMsg)
  /\ request_events' = Put(request_events, loc_id[c], c)
  /\ pc' = [pc EXCEPT ![c] = "dispatch"]
  /\ UNCHANGED <<sessionVars, req_id, contract_details, historical_data, lists, kind,
                 loc_id, tmp, waitev, details, outcome, readerVars, ctlVars, sent,
                 dataLog, nevents,
                 probeVars, apiVars,
                 countVars, objVars>>

\* line 161 / 190-193: self.reqContractDetails(req_id, contract) /
\* self.reqHistoricalData(req_id, ...): writes the request to the socket, or raises
Dispatch(c) ==
  /\ pc[c] = "dispatch"
  /\ \E raises \in BOOLEAN :
       IF raises
         THEN Fail(c, "dispatch_error") /\ UNCHANGED sent
         ELSE /\ sent' = sent \cup {<<kind[c], loc_id[c]>>}
              /\ pc' = [pc EXCEPT ![c] = "wait"]
              /\ UNCHANGED outcome
  /\ ndisp' = [ndisp EXCEPT ![c] = @ + 1]
  /\ UNCHANGED <<sessionVars, req_id, mapVars, heapVars, kind, loc_id, tmp, waitev,
                 details, readerVars, ctlVars, dataLog, termLog, nevents,
                 probeVars, apiVars,
                 nconn, objVars>>

\* line 164 / 196: the lookup self.request_events[req_id] of `.wait(timeout)`
WaitLookup(c) ==
  /\ pc[c] = "wait"
  /\ IF loc_id[c] \in DOMAIN request_events
       THEN /\ waitev' = [waitev EXCEPT ![c] = request_events[loc_id[c]]]
            /\ pc' = [pc EXCEPT ![c] = "waiting"]
            /\ UNCHANGED outcome
       ELSE Fail(c, "key_error") /\ UNCHANGED waitev
  /\ UNCHANGED <<sessionVars, req_id, mapVars, heapVars, kind, loc_id, tmp, details,
                 readerVars, ctlVars, ghostVars,
                 probeVars, apiVars,
                 countVars, objVars>>

\* line 164 / 196: Event.wait(timeout) returns True: the flag is set
WaitSignalled(c) ==
  /\ pc[c] = "waiting"
  /\ evFlag[waitev[c]]
  /\ pc' = [pc EXCEPT ![c] = "s_get"]
  /\ UNCHANGED <<sessionVars, req_id, mapVars, heapVars, kind, loc_id, tmp, waitev,
                 details, outcome, readerVars, ctlVars, ghostVars,
                 probeVars, apiVars,
                 countVars, objVars>>

\* WaitTimedOut with the request sent once more after the first timeout
WaitTimedOutRetries(c) ==
  /\ pc[c] = "waiting"
  /\ ~evFlag[waitev[c]]
  /\ pc' = [pc EXCEPT ![c] = IF ndisp[c] < 2 THEN "dispatch" ELSE "t_del_ev"]
  /\ UNCHANGED <<sessionVars, req_id, mapVars, heapVars, kind, loc_id, tmp, waitev,
                 details, outcome, readerVars, ctlVars, ghostVars,
                 probeVars, apiVars,
                 countVars, objVars>>

\* line 164 / 196: Event.wait(timeout) returns False: the timeout elapsed, flag unset
WaitTimedOut(c) ==
  /\ pc[c] = "waiting"
  /\ ~evFlag[waitev[c]]
  /\ pc' = [pc EXCEPT ![c] = "t_del_ev"]
  /\ UNCHANGED <<sessionVars, req_id, mapVars, heapVars, kind, loc_id, tmp, waitev,
                 details, outcome, readerVars, ctlVars, ghostVars,
                 probeVars, apiVars,
                 countVars, objVars>>

\* line 165 / 197: details = self.contract_details.get(req_id, [])
GetDetails(c) ==
  /\ pc[c] = "s_get"
  /\ details' = [details EXCEPT ![c] =
       IF loc_id[c] \in DOMAIN Buffer(kind[c]) THEN Buffer(kind[c])[loc_id[c]] ELSE 0]
  /\ pc' = [pc EXCEPT ![c] = "s_del_ev"]
  /\ UNCHANGED <<sessionVars, req_id, mapVars, heapVars, kind, loc_id, tmp, waitev,
                 outcome, readerVars, ctlVars, ghostVars,
                 probeVars, apiVars,
                 countVars, objVars>>

\* line 167 / 199 and line 173 / 205: del self.request_events[req_id]
DelRequestEvent(c) ==
  /\ pc[c] \in {"s_del_ev", "t_del_ev"}
  /\ IF loc_id[c] \in DOMAIN request_events
       THEN /\ request_events' = Del(request_events, loc_id[c])
            /\ pc' = [pc EXCEPT ![c] = IF pc[c] = "s_del_ev" THEN "s_chk" ELSE "t_chk"]
            /\ UNCHANGED outcome
       ELSE Fail(c, "key_error") /\ UNCHANGED request_events
  /\ UNCHANGED <<sessionVars, req_id, contract_details, historical_data, heapVars, kind,
                 loc_id, tmp, waitev, details, readerVars, ctlVars, ghostVars,
                 probeVars, apiVars,
                 countVars, objVars>>

\* how a call that has cleaned up ends: line 170 / 202 return details,
\* line 176 / 208 raise Exception("... request timeout for reqId ...")
Finish(c) ==
  /\ pc' = [pc EXCEPT ![c] = "done"]
  /\ outcome' = [outcome EXCEPT ![c] = IF pc[c] \in {"s_chk", "s_del_buf"}
                                          THEN "data" ELSE "timeout"]

\* line 168 / 200 and line 174 / 206: if req_id in self.contract_details;
\* when it is not, the call returns (line 170 / 202) or raises (line 176 / 208)
CheckBuffer(c) ==
  /\ pc[c] \in {"s_chk", "t_chk"}
  /\ IF loc_id[c] \in DOMAIN Buffer(kind[c])
       THEN /\ pc' = [pc EXCEPT ![c] = IF pc[c] = "s_chk" THEN "s_del_buf" ELSE "t_del_buf"]
            /\ UNCHANGED outcome
       ELSE Finish(c)
  /\ UNCHANGED <<sessionVars, req_id, mapVars, heapVars, kind, loc_id, tmp, waitev,
                 details, readerVars, ctlVars, ghostVars,
                 probeVars, apiVars,
                 countVars, objVars>>

\* line 169 / 201 and line 175 / 207: del self.contract_details[req_id], and then
\* the call returns (line 170 / 202) or raises (line 176 / 208)
DelBuffer(c) ==
  /\ pc[c] \in {"s_del_buf", "t_del_buf"}
  /\ IF loc_id[c] \in DOMAIN Buffer(kind[c])
       THEN /\ SetBuffer(kind[c], Del(Buffer(kind[c]), loc_id[c]))
            /\ Finish(c)
       ELSE Fail(c, "key_error") /\ UNCHANGED <<contract_details, historical_data>>
  /\ UNCHANGED <<sessionVars, req_id, request_events, heapVars, kind, loc_id, tmp,
                 waitev, details, readerVars, ctlVars, ghostVars,
                 probeVars, apiVars,
                 countVars, objVars>>

\* ---- the message-processing thread (EClient.run) and the EWrapper callbacks ----

\* the terminal messages: end markers and errors
TerminalTypes == {"cdEnd", "hdEnd", "error"}

\* what the broker may send: data and end markers answer a request that was written
\* to the socket; an error names such a request or the whole session
MaySend(type, id) ==
  CASE type = "cd" -> <<"cd", id>> \in sent
    [] type = "cdEnd" -> <<"cd", id>> \in sent
    [] type = "hd" -> <<"hd", id>> \in sent
    [] type = "hdEnd" -> <<"hd", id>> \in sent
    [] OTHER -> id = NoValidId \/ \E k \in Kinds : <<k, id>> \in sent

\* the identifiers a message can carry
MsgIds == {NoValidId} \cup {s[2] : s \in sent}

\* TerminalCheck without the test `if reqId in self.request_events`
TerminalCheckUnguarded(type, id) ==
  /\ rpc = "idle"
  /\ nevents < MaxEvents
  /\ MaySend(type, id)
  /\ nevents' = nevents + 1
  /\ rpc' = "t_set"
  /\ cur' = [type |-> type, id |-> id, n |-> Len(dataLog)]
  /\ UNCHANGED <<sessionVars, req_id, mapVars, heapVars, callerVars, rref, ctlVars,
                 sent, dataLog, termLog,
                 probeVars, apiVars,
                 countVars, objVars>>

\* error line 60, contractDetailsEnd line 72, historicalDataEnd line 94:
\* if reqId in self.request_events
TerminalCheck(type, id) ==
  /\ rpc = "idle"
  /\ nevents < MaxEvents
  /\ MaySend(type, id)
  /\ nevents' = nevents + 1
  /\ IF id \in DOMAIN request_events
       THEN /\ rpc' = "t_set"
            /\ cur' = [type |-> type, id |-> id, n |-> Len(dataLog)]
       ELSE UNCHANGED <<rpc, cur>>
  /\ UNCHANGED <<sessionVars, req_id, mapVars, heapVars, callerVars, rref, ctlVars,
                 sent, dataLog, termLog,
                 probeVars, apiVars,
                 countVars, objVars>>

\* TerminalSet with the flag of every registered request set, not only the one
\* the message names
TerminalSetBroadcast ==
  /\ rpc = "t_set"
  /\ IF cur.id \in DOMAIN request_events
       THEN /\ evFlag' = [e \in DOMAIN evFlag |->
                            (\E i \in DOMAIN request_events : request_events[i] = e)
                            \/ evFlag[e]]
            /\ termLog' = [e \in DOMAIN termLog |->
                             IF (\E i \in DOMAIN request_events : request_events[i] = e)
                                /\ termLog[e].type = "none"
                               THEN cur ELSE termLog[e]]
            /\ rpc' = "idle"
       ELSE /\ rpc' = "crashed"
            /\ UNCHANGED <<evFlag, termLog>>
  /\ cur' = NoMsg
  /\ UNCHANGED <<sessionVars, req_id, mapVars, lists, callerVars, rref, ctlVars,
                 sent, dataLog, nevents,
                 probeVars, apiVars,
                 countVars, objVars>>

\* error line 61, contractDetailsEnd line 73, historicalDataEnd line 95:
\* self.request_events[reqId].set(); a missing key raises KeyError in the thread
TerminalSet ==
  /\ rpc = "t_set"
  /\ IF cur.id \in DOMAIN request_events
       THEN /\ evFlag' = [evFlag EXCEPT ![request_events[cur.id]] = TRUE]
            /\ termLog' = [termLog EXCEPT ![request_events[cur.id]] =
                              IF @.type = "none" THEN cur ELSE @]
            /\ rpc' = "idle"
       ELSE /\ rpc' = "crashed"
            /\ UNCHANGED <<evFlag, termLog>>
  /\ cur' = NoMsg
  /\ UNCHANGED <<sessionVars, req_id, mapVars, lists, callerVars, rref, ctlVars,
                 sent, dataLog, nevents,
                 probeVars, apiVars,
                 countVars, objVars>>

\* contractDetails lines 65-66, historicalData lines 77-78:
\* if reqId not in self.<buffer>: self.<buffer>[reqId] = []
\* (only this thread adds keys to the buffers, so no other thread's step can come
\* between the test and the store and change what either does)
DataCheck(k, id) ==
  /\ rpc = "idle"
  /\ nevents < MaxEvents
  /\ MaySend(k, id)
  /\ nevents' = nevents + 1
  /\ dataLog' = Append(dataLog, <<k, id>>)
  /\ cur' = [type |-> k, id |-> id, n |-> Len(dataLog) + 1]
  /\ IF id \notin DOMAIN Buffer(k)
       THEN /\ lists' = Append(lists, <<>>)
            /\ SetBuffer(k, Put(Buffer(k), id, Len(lists) + 1))
       ELSE UNCHANGED <<lists, contract_details, historical_data>>
  /\ rpc' = "d_lookup"
  /\ UNCHANGED <<sessionVars, req_id, request_events, evFlag, callerVars, rref, ctlVars,
                 sent, termLog,
                 probeVars, apiVars,
                 countVars, objVars>>

\* contractDetails line 67, historicalData line 80: the lookup self.<buffer>[reqId]
\* of `.append(...)`; a missing key raises KeyError in the thread
DataLookup ==
  /\ rpc = "d_lookup"
  /\ IF cur.id \in DOMAIN Buffer(cur.type)
       THEN /\ rref' = Buffer(cur.type)[cur.id]
            /\ rpc' = "d_append"
            /\ UNCHANGED cur
       ELSE /\ rpc' = "crashed"
            /\ cur' = NoMsg
            /\ UNCHANGED rref
  /\ UNCHANGED <<sessionVars, req_id, mapVars, heapVars, callerVars, ctlVars, ghostVars,
                 probeVars, apiVars,
                 countVars, objVars>>

\* contractDetails line 67, historicalData lines 80-89: <list>.append(...)
DataAppend ==
  /\ rpc = "d_append"
  /\ lists' = [lists EXCEPT ![rref] = Append(@, cur.n)]
  /\ rpc' = "idle"
  /\ cur' = NoMsg
  /\ rref' = 0
  /\ UNCHANGED <<sessionVars, req_id, mapVars, evFlag, callerVars, ctlVars, ghostVars,
                 probeVars, apiVars,
                 countVars, objVars>>

\* nextValidId lines 40-41: self.ready = True
NextValidId ==
  /\ rpc = "idle"
  /\ "nextValidId" \in pending
  /\ pending' = pending \ {"nextValidId"}
  /\ ready' = TRUE
  /\ UNCHANGED <<connected, transport, req_id, mapVars, heapVars, callerVars,
                 readerVars, ctlVars, ghostVars,
                 probeVars, apiVars,
                 countVars, objVars>>

\* connectAck line 46: self.connected = True; EClient.connect calls it, in the
\* thread that connects, once the handshake on the new socket is done
ConnectAck ==
  /\ cpc = "ack"
  /\ connected' = TRUE
  /\ cpc' = "start"
  /\ UNCHANGED <<ready, transport, pending, req_id, mapVars, heapVars, callerVars,
                 readerVars, cres, ndisc, ghostVars,
                 probeVars, apiVars,
                 countVars, objVars>>

\* the peer closes the socket; connectionClosed line 51: self.connected = False
ConnectionClosed ==
  /\ rpc = "idle"
  /\ transport
  /\ transport' = FALSE
  /\ connected' = FALSE
  /\ rpc' = "cc_ready"
  /\ UNCHANGED <<ready, pending, req_id, mapVars, heapVars, callerVars, cur, rref,
                 ctlVars, ghostVars,
                 probeVars, apiVars,
                 countVars, objVars>>

\* connectionClosed line 52: self.ready = False
ConnectionClosedReady ==
  /\ rpc = "cc_ready"
  /\ ready' = FALSE
  /\ rpc' = "idle"
  /\ UNCHANGED <<connected, transport, pending, req_id, mapVars, heapVars, callerVars,
                 cur, rref, ctlVars, ghostVars,
                 probeVars, apiVars,
                 countVars, objVars>>

\* EClient.run returns once the socket is closed and its queue is drained
ReaderExit ==
  /\ rpc = "idle"
  /\ ~transport
  /\ rpc' = "off"
  /\ pending' = pending \ {"nextValidId"}
  /\ UNCHANGED <<ready, connected, transport, req_id, mapVars, heapVars, callerVars,
                 cur, rref, ctlVars, ghostVars,
                 probeVars, apiVars,
                 countVars, objVars>>

\* ---- connect_to_ib ----

\* line 103: self.connect(host, port, client_id): the socket opens, or the call
\* returns without a socket (the failure is reported by callback), or it raises
\* and lines 122-124 return False
Connect ==
  /\ cpc = "idle"
  /\ \E how \in {"open", "refused", "raise"} :
       /\ transport' = (how = "open")
       /\ pending' = IF how = "open" THEN {"nextValidId"} ELSE {}
       /\ cpc' = CASE how = "open" -> "ack"
                   [] how = "refused" -> "start"
                   [] OTHER -> "done"
       /\ cres' = IF how = "raise" THEN "exception" ELSE cres
  /\ nconn' = nconn + 1
  /\ UNCHANGED <<ready, connected, req_id, mapVars, heapVars, callerVars, readerVars,
                 ndisc, ghostVars,
                 probeVars, apiVars,
                 ndisp, objVars>>

\* lines 106-108: thread = Thread(target=self.run); thread.start(); with no socket
\* the thread has nothing to read and ends at once
StartThread ==
  /\ cpc = "start"
  /\ rpc' = IF transport THEN "idle" ELSE "off"
  /\ cpc' = "waitloop"
  /\ UNCHANGED <<sessionVars, req_id, mapVars, heapVars, callerVars, cur, rref, cres,
                 ndisc, ghostVars,
                 probeVars, apiVars,
                 countVars, objVars>>

\* lines 111-113: the loop ends when self.ready is seen, or, with self.ready unseen,
\* when connection_timeout has elapsed
WaitLoopExit ==
  /\ cpc = "waitloop"
  /\ cpc' = IF ready THEN "check_ready" ELSE "check_timeout"
  /\ UNCHANGED <<sessionVars, req_id, mapVars, heapVars, callerVars, readerVars, cres,
                 ndisc, ghostVars,
                 probeVars, apiVars,
                 countVars, objVars>>

\* ConnectReturn with the answer taken from how the wait loop ended, not from a
\* fresh read of self.ready
ConnectReturnStale ==
  /\ cpc \in {"check_ready", "check_timeout"}
  /\ cres' = IF cpc = "check_ready" THEN "true" ELSE "timeout"
  /\ cpc' = "done"
  /\ UNCHANGED <<sessionVars, req_id, mapVars, heapVars, callerVars, readerVars,
                 ndisc, ghostVars,
                 probeVars, apiVars,
                 countVars, objVars>>

\* lines 115-120: if self.ready: return True, else: return False
ConnectReturn ==
  /\ cpc \in {"check_ready", "check_timeout"}
  /\ cres' = IF ready THEN "true" ELSE "timeout"
  /\ cpc' = "done"
  /\ UNCHANGED <<sessionVars, req_id, mapVars, heapVars, callerVars, readerVars,
                 ndisc, ghostVars,
                 probeVars, apiVars,
                 countVars, objVars>>

\* ---- disconnect_from_ib ----

\* line 128: self.disconnect(): the socket is closed
Disconnect ==
  /\ cpc \in {"idle", "done", "closed"}
  /\ tpc = "off" \/ (tpc = "disconnect" /\ cpc = "done")
  /\ ndisc < MaxDisconnects
  /\ ndisc' = ndisc + 1
  /\ transport' = FALSE
  /\ cpc' = "disc_connected"
  /\ UNCHANGED <<ready, connected, pending, req_id, mapVars, heapVars, callerVars,
                 readerVars, cres, ghostVars,
                 probeVars, apiVars,
                 countVars, objVars>>

\* DisconnectConnected without the store to self.connected
DisconnectConnectedSkipped ==
  /\ cpc = "disc_connected"
  /\ cpc' = "disc_ready"
  /\ UNCHANGED <<ready, connected, transport, pending, req_id, mapVars, heapVars,
                 callerVars, readerVars, cres, ndisc, ghostVars,
                 probeVars, apiVars,
                 countVars, objVars>>

\* line 129: self.connected = False
DisconnectConnected ==
  /\ cpc = "disc_connected"
  /\ connected' = FALSE
  /\ cpc' = "disc_ready"
  /\ UNCHANGED <<ready, transport, pending, req_id, mapVars, heapVars, callerVars,
                 readerVars, cres, ndisc, ghostVars,
                 probeVars, apiVars,
                 countVars, objVars>>

\* line 130: self.ready = False
DisconnectReady ==
  /\ cpc = "disc_ready"
  /\ ready' = FALSE
  /\ cpc' = "closed"
  /\ UNCHANGED <<connected, transport, pending, req_id, mapVars, heapVars, callerVars,
                 readerVars, cres, ndisc, ghostVars,
                 probeVars, apiVars,
                 countVars, objVars>>

\* ---- test_connection ----
\* the probe is a new IBClient, local to the call: nothing but test_connection
\* calls it

\* lines 141-142: test_client_id = random.randint(10000, 99999);
\* test_client = IBClient(self.host, self.port, test_client_id, timeout)
TestConnection(id) ==
  /\ tpc = "off"
  /\ cpc = "idle"
  /\ ndisc = 0
  /\ \A c \in Callers : pc[c] = "idle"
  /\ id \in ProbeIds
  /\ test_client_id' = id
  /\ tpc' = "connect"
  /\ UNCHANGED <<sessionVars, req_id, mapVars, heapVars, callerVars, readerVars,
                 ctlVars, ghostVars, client_id, apiVars,
                 countVars, objVars>>

\* lines 143-147: if test_client.connect_to_ib(timeout): go on to disconnect,
\* else: return {"connected": False, "error": "Connection timeout"}
TestConnectionBranch ==
  /\ tpc = "connect"
  /\ cpc = "done"
  /\ tpc' = IF cres = "true" THEN "disconnect" ELSE "ret_timeout"
  /\ UNCHANGED <<sessionVars, req_id, mapVars, heapVars, callerVars, readerVars,
                 ctlVars, ghostVars, client_id, test_client_id, apiVars,
                 countVars, objVars>>

\* lines 144-145: test_client.disconnect_from_ib() has returned;
\* return {"connected": True}
TestConnectionReturn ==
  /\ tpc = "disconnect"
  /\ cpc = "closed"
  /\ tpc' = "ret_connected"
  /\ UNCHANGED <<sessionVars, req_id, mapVars, heapVars, callerVars, readerVars,
                 ctlVars, ghostVars, client_id, test_client_id, apiVars,
                 countVars, objVars>>

\* ---- test_connection next to a primary session ----
\* self is a ready client with requests of its own; test_client is a second
\* IBClient object, whose fields (__init__, lines 18-36) are the record probe

\* lines 141-142: test_client_id = random.randint(10000, 99999);
\* test_client = IBClient(self.host, self.port, test_client_id, timeout)
TestClientInit(id) ==
  /\ probe.pc = "off"
  /\ id \in ProbeIds
  /\ test_client_id' = id
  /\ probe' = [pc |-> "connect", built |-> TRUE, ready |-> FALSE, connected |-> FALSE,
               transport |-> FALSE]
  /\ UNCHANGED <<sessionVars, req_id, mapVars, heapVars, callerVars, readerVars,
                 ctlVars, ghostVars, client_id, tpc, apiVars, countVars, acall>>

\* line 143: test_client.connect_to_ib(timeout), lines 97-124 run on test_client:
\* it becomes ready in time; or connect() succeeds (connectAck, line 46) but
\* nextValidId does not arrive in time; or connect() raises
TestClientConnect(how) ==
  /\ probe.pc = "connect"
  /\ probe' = CASE how = "ready" ->
                     [probe EXCEPT !.pc = "disconnect", !.ready = TRUE,
                                   !.connected = TRUE, !.transport = TRUE]
                [] how = "timeout" ->
                     [probe EXCEPT !.pc = "ret_timeout", !.connected = TRUE,
                                   !.transport = TRUE]
                [] OTHER -> [probe EXCEPT !.pc = "ret_timeout"]
  /\ UNCHANGED <<sessionVars, req_id, mapVars, heapVars, callerVars, readerVars,
                 ctlVars, ghostVars, probeVars, apiVars, countVars, acall>>

\* the mutant of TestClientDisconnect: disconnect_from_ib is called on self
TestClientDisconnectSelf ==
  /\ probe.pc = "disconnect"
  /\ probe' = [probe EXCEPT !.pc = "ret_connected"]
  /\ ready' = FALSE
  /\ connected' = FALSE
  /\ transport' = FALSE
  /\ UNCHANGED <<pending, req_id, mapVars, heapVars, callerVars, readerVars,
                 ctlVars, ghostVars, probeVars, apiVars, countVars, acall>>

\* line 144: test_client.disconnect_from_ib(), lines 126-130 run on test_client
TestClientDisconnect ==
  /\ probe.pc = "disconnect"
  /\ probe' = [probe EXCEPT !.pc = "ret_connected", !.ready = FALSE,
                            !.connected = FALSE, !.transport = FALSE]
  /\ UNCHANGED <<sessionVars, req_id, mapVars, heapVars, callerVars, readerVars,
                 ctlVars, ghostVars, probeVars, apiVars, countVars, acall>>

\* line 145 / 147: return {"connected": True} / {"connected": False, ...}
TestClientReturn ==
  /\ probe.pc \in {"ret_connected", "ret_timeout"}
  /\ probe' = [probe EXCEPT !.pc = "returned"]
  /\ UNCHANGED <<sessionVars, req_id, mapVars, heapVars, callerVars, readerVars,
                 ctlVars, ghostVars, probeVars, apiVars, countVars, acall>>

\* ---- products.py and the routes of ib_server.py ----
\* a Python string is the sequence of its characters

\* products.py lines 5-61
PRODUCT_MAP ==
     (<<"U", "K", "G", "B">> :>
        [symbol |-> <<"G">>, secType |-> "CONTFUT", exchange |-> "LIFFE", currency |-> "GBP"])
  @@ (<<"U", "S", "T", "1", "0", "Y">> :>
        [symbol |-> <<"Z", "N">>, secType |-> "CONTFUT", exchange |-> "CBOT", currency |-> "USD"])
  @@ (<<"U", "S", "T", "0", "5", "Y">> :>
        [symbol |-> <<"Z", "F">>, secType |-> "CONTFUT", exchange |-> "CBOT", currency |-> "USD"])
  @@ (<<"U", "S", "T", "3", "0", "Y">> :>
        [symbol |-> <<"Z", "B">>, secType |-> "CONTFUT", exchange |-> "CBOT", currency |-> "USD"])
  @@ (<<"E", "U", "R", "B", "B", "L">> :>
        [symbol |-> <<"F", "G", "B", "L">>, secType |-> "CONTFUT", exchange |-> "EUREX", currency |-> "EUR"])
  @@ (<<"E", "U", "R", "S", "C", "A">> :>
        [symbol |-> <<"F", "G", "B", "S">>, secType |-> "CONTFUT", exchange |-> "EUREX", currency |-> "EUR"])
  @@ (<<"I", "T", "B", "1", "0", "Y">> :>
        [symbol |-> <<"F", "B", "T", "P">>, secType |-> "CONTFUT", exchange |-> "EUREX", currency |-> "EUR"])
  @@ (<<"E", "U", "R", "B", "N", "D">> :>
        [symbol |-> <<"G", "B", "L">>, secType |-> "CONTFUT", exchange |-> "EUREX", currency |-> "EUR"])

\* the contract months tried after a product code: three characters, two, five
Months == {<<"M", "2", "5">>, <<"Z", "2", "5">>, <<"H", "6">>, <<"M", "2", "0", "2", "5">>}

\* the codes tried: every product code alone and followed by each month, short
\* strings, codes of no product, a code in lower case
Codes ==
  DOMAIN PRODUCT_MAP
  \cup {k \o m : k \in DOMAIN PRODUCT_MAP, m \in Months}
  \cup {<<>>, <<"M", "2", "5">>, <<"A", "B">>, <<"A", "A", "P", "L">>, <<"A", "A", "P", "L", "M", "2", "5">>, <<"U", "K", "G", "B", "U", "K", "G", "B">>, <<"e", "u", "r", "b", "b", "l", "m", "2", "5">>}

\* str.upper, on the lower-case letters the codes use
UpperChar(ch) ==
  CASE ch = "e" -> "E" [] ch = "u" -> "U" [] ch = "r" -> "R" [] ch = "b" -> "B"
    [] ch = "l" -> "L" [] ch = "m" -> "M" [] OTHER -> ch

upper(str) == [i \in 1..Len(str) |-> UpperChar(str[i])]

\* parse_product_from_code without the check of the product against PRODUCT_MAP
parse_product_from_code_unverified(code) ==
  IF Len(code) <= 3
    THEN <<code, None>>
    ELSE <<SubSeq(code, 1, Len(code) - 3), SubSeq(code, Len(code) - 2, Len(code))>>

\* products.py lines 91-108
parse_product_from_code(code) ==
  IF Len(code) <= 3
    THEN <<code, None>>
    ELSE LET product_code == SubSeq(code, 1, Len(code) - 3)
             contract_month == SubSeq(code, Len(code) - 2, Len(code))
         IN IF product_code \in DOMAIN PRODUCT_MAP
              THEN <<product_code, contract_month>>
              ELSE <<code, None>>

\* a call of parse_product_from_code(full_code)
ParseProductFromCode ==
  /\ parsed = <<>>
  /\ parsed' = parse_product_from_code(full_code)
  /\ UNCHANGED <<sessionVars, req_id, mapVars, heapVars, callerVars, readerVars,
                 ctlVars, ghostVars, probeVars, full_code, resp,
                 countVars, objVars>>

\* what the GET of /iserver/auth/status can do: answer 200 with JSON, answer
\* another status, raise a RequestException, answer 200 with a body that is no JSON
AuthOutcomes == {"ok", "non200", "exception", "badjson"}

\* ib_server.py lines 37-80: health_check
HealthCheck(auth) ==
  /\ resp.route = "none"
  /\ resp' = [route |-> "health",
              status |-> CASE auth = "ok" -> 200
                           [] auth = "non200" -> 503
                           [] OTHER -> 500,
              symbol |-> <<>>, count |-> 0, search |-> "none", history |-> auth,
              search_data |-> <<>>, conid |-> <<>>]
  /\ UNCHANGED <<sessionVars, req_id, mapVars, heapVars, callerVars, readerVars,
                 ctlVars, ghostVars, probeVars, full_code, parsed,
                 countVars, objVars>>

\* a value of the search answer's JSON: the key is absent, or a null, a string or a
\* number is stored under it
Absent == [t |-> "absent", s |-> <<>>, n |-> 0]
JsonNull == [t |-> "null", s |-> <<>>, n |-> 0]
JsonStr(chars) == [t |-> "str", s |-> chars, n |-> 0]
JsonInt(i) == [t |-> "int", s |-> <<>>, n |-> i]

\* the "conid" values a contract of the search answer can have
ConidValues ==
  {Absent, JsonNull, JsonStr(<<>>), JsonStr(<<"1", "2">>), JsonInt(7)}

\* the search answers: no contract, one contract, or two (the second is never read)
SearchResults ==
  {<<>>} \cup {<<v>> : v \in ConidValues}
         \cup {<<v, JsonInt(12)>> : v \in ConidValues}

\* Python's decimal digits of a natural number
DigitChar(d) == <<"0", "1", "2", "3", "4", "5", "6", "7", "8", "9">>[d + 1]

RECURSIVE DecimalStr(_)
DecimalStr(i) ==
  IF i < 10 THEN <<DigitChar(i)>>
  ELSE DecimalStr(i \div 10) \o <<DigitChar(i % 10)>>

\* ib_server.py line 223: str(contract.get("conid", "")): the default "" for an
\* absent key, "None" for a null, the string itself, the digits of a number
str_conid(v) ==
  CASE v.t = "absent" -> <<>>
    [] v.t = "null" -> <<"N", "o", "n", "e">>
    [] v.t = "str" -> v.s
    [] v.t = "int" -> DecimalStr(v.n)

\* what the GET of /iserver/secdef/search can do: raise, answer a status other than
\* 200, answer no JSON, answer a JSON list of contracts
SearchOutcomes == {"exception", "non200", "badjson", "ok"}

\* what the GET of /iserver/marketdata/history can do: raise, answer a status other
\* than 200, answer no JSON, answer bars (none when "data" is missing or empty)
HistoryOutcomes == {"exception", "non200", "badjson", "ok"}

\* ib_server.py lines 152-170: the symbol searched for
symbol_to_use(code) ==
  LET product_code == parse_product_from_code(upper(code))[1]
  IN IF product_code \in DOMAIN PRODUCT_MAP
       THEN PRODUCT_MAP[product_code].symbol
       ELSE upper(code)

\* ib_server.py lines 124-327: get_market_data
GetMarketData(search, search_data, history, bars) ==
  /\ resp.route = "none"
  /\ LET \* lines 213-219: if not search_data -> 404
         empty == search = "ok" /\ search_data = <<>>
         \* lines 222-223: contract = search_data[0]; conid = str(contract.get(...))
         conid == IF search = "ok" /\ ~empty THEN str_conid(search_data[1]) ELSE <<>>
         \* lines 227-233: if not conid -> 404
         noconid == search = "ok" /\ ~empty /\ conid = <<>>
         requested == search = "ok" /\ ~empty /\ ~noconid
     IN resp' = [route |-> "market",
                 status |-> CASE search \in {"exception", "badjson"} -> 500
                              [] search = "non200" \/ empty \/ noconid -> 404
                              [] history \in {"exception", "non200", "badjson"} -> 500
                              [] OTHER -> 200,
                 symbol |-> symbol_to_use(full_code),
                 count |-> IF requested /\ history = "ok" THEN bars ELSE 0,
                 search |-> IF empty THEN "empty"
                            ELSE IF noconid THEN "noconid" ELSE search,
                 history |-> IF requested THEN history ELSE "none",
                 search_data |-> IF search = "ok" THEN search_data ELSE <<>>,
                 conid |-> IF requested THEN conid ELSE <<>>]
  /\ UNCHANGED <<sessionVars, req_id, mapVars, heapVars, callerVars, readerVars,
                 ctlVars, ghostVars, probeVars, full_code, parsed,
                 countVars, objVars>>

\* ---- the ib_insync client (ib_client_insync.py) ----
\* the contract a caller passes in (create_contract, lines 216-229: symbol, secType,
\* exchange and currency only, so conId keeps its default 0) and the contracts the
\* broker resolves it to
Unresolved == [conId |-> 0]
ResolvedContracts == {[conId |-> 7], [conId |-> 12]}

\* the answers to reqContractDetailsAsync: no, one or two contract details
DetailLists ==
  {<<>>} \cup {<<a>> : a \in ResolvedContracts}
         \cup {<<a, b>> : a, b \in ResolvedContracts}

\* the timeout arguments of a call, in units of AsyncTick
Timeouts == 1..MaxTimeout

\* req_contract_details (lines 118-124) / req_historical_data (lines 201-214) run
\* the coroutine; lines 105-106 / 131-132: if not self.is_connected(): raise;
\* line 108 / 143: await self.ib.reqContractDetailsAsync(contract)
AsyncCall(k, t, is_connected) ==
  /\ acall.pc = "idle"
  /\ acall' = IF is_connected
                THEN [acall EXCEPT !.pc = "await_cd", !.kind = k, !.timeout = t,
                                   !.requests = <<[type |-> "cd", contract |-> Unresolved]>>]
                ELSE [acall EXCEPT !.pc = "done", !.kind = k, !.timeout = t,
                                   !.outcome = "not_connected"]
  /\ UNCHANGED <<sessionVars, req_id, mapVars, heapVars, callerVars, readerVars,
                 ctlVars, ghostVars, probeVars, apiVars, countVars, probe>>

\* time passes while the coroutine is suspended in an await: neither coroutine
\* reads its timeout argument, and no wait_for bounds the await
AsyncTick ==
  /\ acall.pc \in {"await_cd", "await_hd"}
  /\ acall.elapsed < MaxTicks
  /\ acall' = [acall EXCEPT !.elapsed = @ + 1]
  /\ UNCHANGED <<sessionVars, req_id, mapVars, heapVars, callerVars, readerVars,
                 ctlVars, ghostVars, probeVars, apiVars, countVars, probe>>

\* the await of reqContractDetailsAsync ends. _req_contract_details_async, lines
\* 108-116: return the details, or re-raise. _req_historical_data_async, lines
\* 143-170: if not resolved_contracts: raise; actual_contract =
\* resolved_contracts[0].contract; await self.ib.reqHistoricalDataAsync(
\* contract=actual_contract, ...)
AsyncDetails(ds, raises) ==
  /\ acall.pc = "await_cd"
  /\ acall' =
       IF raises THEN [acall EXCEPT !.pc = "done", !.outcome = "error"]
       ELSE IF acall.kind = "cd"
         THEN [acall EXCEPT !.pc = "done", !.outcome = "data", !.resolved = ds]
       ELSE IF ds = <<>>
         THEN [acall EXCEPT !.pc = "done", !.outcome = "error", !.resolved = ds]
       ELSE [acall EXCEPT !.pc = "await_hd", !.resolved = ds,
                          !.requests = @ \o <<[type |-> "hd", contract |-> ds[1]]>>]
  /\ UNCHANGED <<sessionVars, req_id, mapVars, heapVars, callerVars, readerVars,
                 ctlVars, ghostVars, probeVars, apiVars, countVars, probe>>

\* the await of reqHistoricalDataAsync ends, lines 160-199: the bars are returned,
\* or the exception is re-raised
AsyncBars(raises) ==
  /\ acall.pc = "await_hd"
  /\ acall' = [acall EXCEPT !.pc = "done",
                            !.outcome = IF raises THEN "error" ELSE "data"]
  /\ UNCHANGED <<sessionVars, req_id, mapVars, heapVars, callerVars, readerVars,
                 ctlVars, ghostVars, probeVars, apiVars, countVars, probe>>

\* ---- the program ----
CallerStep(c) ==
  \/ \E k \in Kinds : Call(c, k)
  \/ GetNextReqIdRead(c)
  \/ GetNextReqIdLoad(c)
  \/ GetNextReqIdStore(c)
  \/ Register(c)
  \/ Dispatch(c)
  \/ WaitLookup(c)
  \/ WaitSignalled(c)
  \/ WaitTimedOut(c)
  \/ GetDetails(c)
  \/ DelRequestEvent(c)
  \/ CheckBuffer(c)
  \/ DelBuffer(c)

\* the state after connect_to_ib has returned True
InitReady ==
  /\ ready = TRUE
  /\ connected = TRUE
  /\ transport = TRUE
  /\ pending = {}
  /\ req_id = 1
  /\ request_events = EmptyDict
  /\ contract_details = EmptyDict
  /\ historical_data = EmptyDict
  /\ evFlag = EmptyDict
  /\ lists = <<>>
  /\ pc = [c \in Threads |-> "idle"]
  /\ kind = [c \in Threads |-> "cd"]
  /\ loc_id = [c \in Threads |-> 0]
  /\ tmp = [c \in Threads |-> 0]
  /\ waitev = [c \in Threads |-> "none"]
  /\ details = [c \in Threads |-> 0]
  /\ outcome = [c \in Threads |-> "none"]
  /\ rpc = "idle"
  /\ cur = NoMsg
  /\ rref = 0
  /\ cpc = "done"
  /\ cres = "true"
  /\ sent = {}
  /\ dataLog = <<>>
  /\ termLog = EmptyDict
  /\ nevents = 0
  /\ ndisc = 0
  /\ client_id = DefaultIdLo
  /\ test_client_id = 0
  /\ tpc = "off"
  /\ full_code = <<>>
  /\ parsed = <<>>
  /\ resp = NoResp
  /\ nconn = 1
  /\ ndisp = [c \in Threads |-> 0]
  /\ probe = NoProbe
  /\ acall = NoCall

CorrelatorReaderStep ==
  \/ \E type \in TerminalTypes, id \in MsgIds : TerminalCheck(type, id)
  \/ TerminalSet
  \/ \E k \in Kinds, id \in MsgIds : DataCheck(k, id)
  \/ DataLookup
  \/ DataAppend

\* the request correlator: the callers and the message-processing thread of a
\* session that is Ready
NextReq ==
  \/ \E c \in Callers : CallerStep(c)
  \/ CorrelatorReaderStep

SpecReq == InitReady /\ [][NextReq]_vars

\* test_connection called on a ready client while one of its requests runs
TestClientStep ==
  \/ \E id \in ProbeIds : TestClientInit(id)
  \/ \E how \in {"ready", "timeout", "raise"} : TestClientConnect(how)
  \/ TestClientDisconnect
  \/ TestClientReturn

NextProbe ==
  \/ CallerStep("t1")
  \/ CorrelatorReaderStep
  \/ TestClientStep

SpecProbe == InitReady /\ [][NextProbe]_vars

\* get_next_req_id by itself: the opening of a req_* call, up to the identifier
AllocStep(c) ==
  \/ \E k \in Kinds : Call(c, k)
  \/ GetNextReqIdRead(c)
  \/ GetNextReqIdLoad(c)
  \/ GetNextReqIdStore(c)

\* three threads of a session that is Ready, each allocating one identifier
NextIds == \E c \in Threads : AllocStep(c)

SpecIds == InitReady /\ [][NextIds]_vars

\* the steps that finish a callback the message-processing thread has begun
HandlerStep ==
  \/ TerminalSet
  \/ DataLookup
  \/ DataAppend

\* SpecReq with the message-processing thread scheduled: a thread that can run
\* is not left waiting for ever
SpecReqFair == SpecReq /\ WF_vars(HandlerStep)

SessionReaderStep ==
  \/ NextValidId
  \/ ConnectionClosed
  \/ ConnectionClosedReady
  \/ ReaderExit

ControllerStep ==
  \/ Connect
  \/ ConnectAck
  \/ StartThread
  \/ WaitLoopExit
  \/ ConnectReturn
  \/ Disconnect
  \/ DisconnectConnected
  \/ DisconnectReady

ProbeStep ==
  \/ \E id \in ProbeIds : TestConnection(id)
  \/ TestConnectionBranch
  \/ TestConnectionReturn

\* the readiness gate of the req_* methods, on the primary session
GateStep == tpc = "off" /\ \E c \in Callers, k \in Kinds : Call(c, k)

\* the connection manager: connect_to_ib / disconnect_from_ib from construction on,
\* with the session callbacks, test_connection (the session is then its probe) and
\* the readiness check that opens every req_* call
NextConn ==
  \/ SessionReaderStep
  \/ ControllerStep
  \/ ProbeStep
  \/ GateStep

SpecConn == Init /\ [][NextConn]_vars

\* the state in which the server takes a request for a code: the IBClient part as
\* constructed (the routes do not use it)
InitApi ==
  /\ ready = FALSE
  /\ connected = FALSE
  /\ transport = FALSE
  /\ pending = {}
  /\ req_id = 1
  /\ request_events = EmptyDict
  /\ contract_details = EmptyDict
  /\ historical_data = EmptyDict
  /\ evFlag = EmptyDict
  /\ lists = <<>>
  /\ pc = [c \in Threads |-> "idle"]
  /\ kind = [c \in Threads |-> "cd"]
  /\ loc_id = [c \in Threads |-> 0]
  /\ tmp = [c \in Threads |-> 0]
  /\ waitev = [c \in Threads |-> "none"]
  /\ details = [c \in Threads |-> 0]
  /\ outcome = [c \in Threads |-> "none"]
  /\ rpc = "off"
  /\ cur = NoMsg
  /\ rref = 0
  /\ cpc = "idle"
  /\ cres = "none"
  /\ sent = {}
  /\ dataLog = <<>>
  /\ termLog = EmptyDict
  /\ nevents = 0
  /\ ndisc = 0
  /\ client_id = DefaultIdLo
  /\ test_client_id = 0
  /\ tpc = "off"
  /\ full_code \in Codes
  /\ parsed = <<>>
  /\ resp = NoResp
  /\ nconn = 0
  /\ ndisp = [c \in Threads |-> 0]
  /\ probe = NoProbe
  /\ acall = NoCall

\* products.py and the routes of ib_server.py, on one code
NextApi ==
  \/ ParseProductFromCode
  \/ \E auth \in AuthOutcomes : HealthCheck(auth)
  \/ \E search \in SearchOutcomes, search_data \in SearchResults,
          history \in HistoryOutcomes, bars \in 0..MaxBars :
       GetMarketData(search, search_data, history, bars)

SpecApi == InitApi /\ [][NextApi]_vars

\* the two historical-data flows, one request each: GET /ib/market-data/<code> of
\* the server, for a plain symbol and for a product code, and a call on the
\* ib_insync client
FlowCodes == {<<"A", "B">>, <<"U", "K", "G", "B">>}

InitFlow == InitApi /\ full_code \in FlowCodes

NextFlow ==
  \/ \E search \in SearchOutcomes, search_data \in SearchResults,
          history \in HistoryOutcomes, bars \in 0..MaxBars :
       GetMarketData(search, search_data, history, bars)
  \/ \E k \in Kinds, t \in Timeouts, is_connected \in BOOLEAN :
       AsyncCall(k, t, is_connected)
  \/ AsyncTick
  \/ \E ds \in DetailLists, raises \in BOOLEAN : AsyncDetails(ds, raises)
  \/ \E raises \in BOOLEAN : AsyncBars(raises)

SpecFlow == InitFlow /\ [][NextFlow]_vars


\* ---- what the claims speak of ----

\* the caller's wait was ended by a set flag (it is on, or came out of, lines 165-170)
Signalled(c) ==
  \/ pc[c] \in {"s_get", "s_del_ev", "s_chk", "s_del_buf"}
  \/ pc[c] = "done" /\ outcome[c] = "data"

\* the caller's wait timed out (it is on lines 173-176)
TimedOut(c) == pc[c] \in {"t_del_ev", "t_chk", "t_del_buf"}

\* the terminal message that ended the caller's wait
Woke(c) == termLog[waitev[c]]

\* the data messages of kind k for identifier id among the first m handled, in order
RECURSIVE DataFor(_, _, _)
DataFor(k, id, m) ==
  IF m = 0 THEN <<>>
  ELSE IF dataLog[m] = <<k, id>> THEN Append(DataFor(k, id, m - 1), m)
       ELSE DataFor(k, id, m - 1)

IsPrefix(s, t) == Len(s) <= Len(t) /\ \A i \in 1..Len(s) : s[i] = t[i]

\* the call allocated an identifier
Allocated(c) == loc_id[c] # 0

\* C1: every call made while the session is ready ends with exactly one outcome out
\* of {accumulated data, timeout error, protocol error}; stated on the finished call
\* (an exception out of the dispatch call is counted with the protocol errors)
C1_OneOutcomeOfThree ==
  \A c \in Callers :
    pc[c] = "done" =>
      outcome[c] \in {"data", "timeout", "protocol_error", "dispatch_error"}

\* C2: after a call returns by any path, the identifier it allocated is absent from
\* request_events and from its accumulation buffer
C2_NoLeakAfterReturn ==
  \A c \in Callers :
    (pc[c] = "done" /\ Allocated(c)) =>
      /\ loc_id[c] \notin DOMAIN request_events
      /\ loc_id[c] \notin DOMAIN Buffer(kind[c])

\* C3: a message addressed to an identifier that is not registered in request_events
\* is dropped: handling it leaves request_events, contract_details and
\* historical_data unchanged
C3_UnregisteredDropped ==
  [][(nevents' = nevents + 1
        /\ (cur'.type = "none" \/ cur'.id \notin DOMAIN request_events))
      => UNCHANGED <<request_events, contract_details, historical_data>>]_vars

\* C4: no two requests of a session receive the same request identifier
C4_IdentifiersUnique ==
  \A c, d \in Callers :
    (c # d /\ Allocated(c) /\ Allocated(d)) => loc_id[c] # loc_id[d]

\* C5: a caller whose wait is ended by an error message observes a protocol error,
\* not a data result
C5_ErrorIsProtocolError ==
  \A c \in Callers :
    (pc[c] = "done" /\ outcome[c] = "data") => Woke(c).type # "error"

\* C6: a call whose wait timed out fails with the request-timeout error, and its
\* identifier is out of request_events when it raises
C6_TimeoutRaisesTimeout ==
  [][\A c \in Callers :
       (TimedOut(c) /\ pc'[c] = "done") =>
         /\ outcome'[c] = "timeout"
         /\ loc_id[c] \notin DOMAIN request_events']_vars

\* C7: a request completed by an end marker returns exactly the data messages
\* delivered for its identifier before that end marker, in delivery order; stated
\* for the runs in which the broker sends no data for the identifier after the end
\* marker (24 bars, then the end)
C7_ReturnsDataBeforeEnd ==
  \A c \in Callers :
    (/\ pc[c] = "done" /\ outcome[c] = "data"
     /\ Woke(c).type \in {"cdEnd", "hdEnd"}
     /\ DataFor(kind[c], loc_id[c], Len(dataLog)) = DataFor(kind[c], loc_id[c], Woke(c).n)
     /\ rpc = "idle") =>
      Result(c) = DataFor(kind[c], loc_id[c], Woke(c).n)

\* C8: two requests with distinct identifiers do not see each other's messages:
\* the list a caller holds is made of the data messages addressed to its own kind
\* and identifier, from the first on and in delivery order, and the terminal
\* message that ended its wait carried its own identifier
C8_RequestsIsolated ==
  \A c, d \in Callers :
    (c # d /\ Allocated(c) /\ Allocated(d) /\ loc_id[c] # loc_id[d]) =>
      /\ IsPrefix(Result(c), DataFor(kind[c], loc_id[c], Len(dataLog)))
      /\ Signalled(c) => Woke(c).id = loc_id[c]

\* both requests have returned data, under distinct identifiers, one of them a
\* non-empty list, each woken by its own end marker
C8_Witness ==
  /\ \A c \in Callers : pc[c] = "done" /\ outcome[c] = "data"
  /\ loc_id["t1"] # loc_id["t2"]
  /\ Result("t1") # <<>>
  /\ Woke("t1").type = "cdEnd"
  /\ Woke("t2").type \in {"cdEnd", "hdEnd"}

\* C9: the handler of a message never fails on a missing key, whatever the caller's
\* cleanup does between its test and its lookup
C9_ReaderNeverFails == rpc # "crashed"

\* C10: when connect_to_ib returns False because readiness did not arrive in time,
\* the session is Disconnected: not ready, not connected, no socket and no
\* message-processing thread left from the attempt
C10_TimeoutLeavesDisconnected ==
  [][(cpc # "done" /\ cpc' = "done" /\ cres' = "timeout") =>
       (~ready' /\ ~connected' /\ ~transport' /\ rpc' = "off")]_vars

C13_ProbeNeverLeftConnected ==
  tpc \in {"ret_connected", "ret_timeout"} => (~transport /\ ~connected)

\* C14: the client identifier of the probe differs from the client identifier of
\* the primary session, whatever that one is
C14_ProbeIdDiffers == tpc # "off" => test_client_id # client_id

\* C15: a req_* call made while the session is not ready fails at once with the
\* not-ready error and has no effect: no identifier is consumed, nothing is
\* registered and nothing is dispatched
C15_NotReadyNoEffect ==
  [][\A c \in Callers :
       (pc[c] = "idle" /\ pc'[c] # "idle" /\ ~ready) =>
         /\ pc'[c] = "done"
         /\ outcome'[c] = "not_ready"
         /\ loc_id'[c] = 0
         /\ UNCHANGED <<req_id, request_events, contract_details, historical_data,
                        sent>>]_vars

\* a call was refused on a session that is not ready, with nothing consumed
C15_Witness ==
  \E c \in Callers :
    pc[c] = "done" /\ outcome[c] = "not_ready" /\ req_id = 1 /\ sent = {}

\* C16: a contract-details call whose wait is ended by its end marker, with no
\* contract-detail message delivered for its identifier, returns the empty list as
\* a normal result
C16_ZeroMatchesReturnEmpty ==
  [][\A c \in Callers :
       (/\ pc[c] \in {"s_get", "s_del_ev", "s_chk", "s_del_buf"}
        /\ kind[c] = "cd"
        /\ Woke(c).type = "cdEnd"
        /\ DataFor("cd", loc_id[c], Len(dataLog)) = <<>>
        /\ pc'[c] = "done") =>
         /\ outcome'[c] = "data"
         /\ details'[c] = 0 \/ lists'[details'[c]] = <<>>]_vars

\* C17: parse_product_from_code(c) returns (c[:-3], c[-3:]) exactly when c is longer
\* than 3 characters and c without its last 3 characters is a key of PRODUCT_MAP, and
\* (c, None) otherwise; EURBBLM25 gives (EURBBL, M25), which the table maps to
\* FGBL / EUREX / EUR; the month is None only when the product is the whole input
C17_ParseProductFromCode ==
  parsed # <<>> =>
    LET c == full_code
        splits == Len(c) > 3 /\ SubSeq(c, 1, Len(c) - 3) \in DOMAIN PRODUCT_MAP
    IN /\ splits => parsed = <<SubSeq(c, 1, Len(c) - 3), SubSeq(c, Len(c) - 2, Len(c))>>
       /\ ~splits => parsed = <<c, None>>
       /\ (parsed # <<c, None>>) => splits
       /\ c = <<"E", "U", "R", "B", "B", "L", "M", "2", "5">> =>
            /\ parsed = <<<<"E", "U", "R", "B", "B", "L">>, <<"M", "2", "5">>>>
            /\ PRODUCT_MAP[parsed[1]].symbol = <<"F", "G", "B", "L">>
            /\ PRODUCT_MAP[parsed[1]].exchange = "EUREX"
            /\ PRODUCT_MAP[parsed[1]].currency = "EUR"
       /\ parsed[2] = None => parsed[1] = c

\* EURBBLM25 has been parsed into a product and a month
C17_Witness ==
  /\ full_code = <<"E", "U", "R", "B", "B", "L", "M", "2", "5">>
  /\ parsed # <<>>
  /\ parsed[2] = <<"M", "2", "5">>

\* C18: GET /market-data/{code} answers 404 when the contract search gives no
\* contract or the history gives zero bars, 500 on every other failure, and 200
\* only with at least one bar
C18_MarketDataStatus ==
  resp.route = "market" =>
    LET noContract == resp.search \in {"non200", "empty", "noconid"}
        fetched == resp.search = "ok" /\ resp.history = "ok"
    IN resp.status = IF noContract \/ (fetched /\ resp.count = 0) THEN 404
                     ELSE IF fetched THEN 200
                     ELSE 500

\* C19: GET /health answers 200 or 503 and nothing else, whatever the upstream
\* status check does
C19_HealthStatus == resp.route = "health" => resp.status \in {200, 503}

\* C20: at most one terminal message takes effect per identifier: once a terminal
\* message has set the Event of an identifier, a further terminal message for that
\* identifier sets no flag and changes neither the mappings nor the lists the
\* callers hold
C20_FirstTerminalWins ==
  [][(/\ rpc = "t_set" /\ rpc' # "t_set"
      /\ \E e \in DOMAIN termLog : termLog[e].type # "none" /\ termLog[e].id = cur.id) =>
       UNCHANGED <<evFlag, termLog, request_events, contract_details, historical_data,
                   lists, details, outcome>>]_vars

\* C21: once a req_* call has returned its result list, the message-processing
\* thread never mutates that list: no data message handled after the return is
\* appended to it
C21_ReturnedListNotMutated ==
  [][\A c \in Callers :
       (pc[c] = "done" /\ outcome[c] = "data" /\ details[c] # 0) =>
         lists'[details[c]] = lists[details[c]]]_vars

\* C22: an error message (any terminal message) whose identifier is not registered
\* in request_events, such as a session-level error with reqId -1, does not fail
\* the message-processing thread: the handler completes, sets no flag and leaves
\* request_events, the buffers, ready and connected unchanged
C22_UnregisteredErrorDropped ==
  [][(/\ rpc = "idle"
      /\ nevents' = nevents + 1
      /\ cur'.type \notin Kinds
      /\ cur'.id \notin DOMAIN request_events) =>
       /\ rpc' = "idle"
       /\ UNCHANGED <<evFlag, request_events, contract_details, historical_data, lists,
                      ready, connected>>]_vars

\* a session-level error (nothing has been written to the broker, so no other
\* message can have come) was handled while a request was registered and unset
C22_Witness ==
  /\ nevents >= 1
  /\ sent = {}
  /\ rpc = "idle"
  /\ pc["t1"] = "dispatch"
  /\ ~evFlag["t1"]

\* C23: the message-processing thread never waits on a caller: a callback it has
\* begun is finished by its own steps, whatever the callers do, and the thread is
\* then back at its loop, free to take the next message
C23_ReaderNeverStalls ==
  (rpc \in {"t_set", "d_lookup", "d_append"}) ~> (rpc = "idle")

\* C24: a request is registered in request_events before it is dispatched and
\* stays registered, under its own Event, until its wait has ended, so a terminal
\* message handled at any point after the dispatch sets the Event its caller
\* waits on: no wake-up is lost
C24_RegisteredBeforeDispatch ==
  \A c \in Callers :
    /\ ndisp[c] > 0 => c \in DOMAIN evFlag
    /\ pc[c] \in {"dispatch", "wait", "waiting"} =>
         /\ loc_id[c] \in DOMAIN request_events
         /\ request_events[loc_id[c]] = c
    /\ pc[c] = "waiting" => waitev[c] = c

\* C25: req_id starts at 1, never decreases under any interleaving of concurrent
\* get_next_req_id calls, and is strictly greater than every identifier that
\* get_next_req_id has returned
C25_ReqIdMonotonic ==
  [][/\ req_id >= 1
     /\ req_id' >= req_id
     /\ \A c \in Threads : pc'[c] = "register" => loc_id'[c] < req_id']_vars

C27_HistoryAfterResolution ==
  /\ \A i \in DOMAIN acall.requests :
       acall.requests[i].type = "hd" =>
         /\ acall.resolved # <<>>
         /\ acall.requests[i].contract = acall.resolved[1]
         /\ acall.requests[i].contract # Unresolved
  /\ (resp.route = "market" /\ resp.history # "none") =>
       /\ resp.search_data # <<>>
       /\ resp.search_data[1].t \in {"str", "int"}
       /\ resp.conid # <<>>
       /\ resp.conid = str_conid(resp.search_data[1])

\* C29: a call on the ib_insync client never waits longer than its timeout
\* argument: while it is suspended for the broker's answer, no more time than the
\* timeout has passed since the call began
C29_AsyncCallBounded ==
  acall.pc \in {"await_cd", "await_hd"} => acall.elapsed <= acall.timeout

\* C28: test_connection does not disturb the primary session: no step of it
\* changes the primary client's ready and connected flags, its req_id, its
\* request_events or its buffers, nor the state of the primary's callers and of
\* its message-processing thread, so the pending requests go on as without it
C28_ProbeLeavesPrimary ==
  [][probe' # probe =>
       UNCHANGED <<ready, connected, transport, req_id, request_events,
                   contract_details, historical_data, evFlag, lists, pc, waitev,
                   details, outcome, rpc, cur>>]_vars

\* a probe has connected and disconnected while a request of the primary was
\* waiting for its answer, and the primary is still ready
C28_Witness ==
  /\ probe.pc = "ret_connected"
  /\ pc["t1"] = "waiting"
  /\ ready /\ connected

\* C30: whenever ready is True the session is connected (but for the two
\* assignments of a running connectionClosed or disconnect_from_ib), no
\* disconnect_from_ib has completed since the last connect_to_ib, and the last
\* connect_to_ib has not returned False: a nextValidId that arrives late never
\* makes the session ready again
C30_ReadyOnlyWhileConnected ==
  ready =>
    /\ cpc # "closed"
    /\ ~(cpc = "done" /\ cres = "timeout")
    /\ connected \/ rpc = "cc_ready" \/ cpc = "disc_ready"

\* C31: for every key P of PRODUCT_MAP, parse_product_from_code(P) returns
\* (P, None): no product code alone is split into another product code and a
\* contract month of 3 characters
C31_BareProductCodeUnsplit ==
  (full_code \in DOMAIN PRODUCT_MAP /\ parsed # <<>>) => parsed = <<full_code, None>>

\* UST10Y, a product code longer than 3 characters, has been parsed
C31_Witness ==
  /\ full_code = <<"U", "S", "T", "1", "0", "Y">>
  /\ parsed = <<full_code, None>>

====
